---- MODULE Spec2Model ----
(***************************************************************************)
(* Model of flopy.grid.reference.SpatialReference (origin duality, affine  *)
(* transform, lazily cached derived arrays), of the EPSG resolver it calls *)
(* and of the StructuredModelGrid it is attached to.                       *)
(*                                                                         *)
(* Numbers.  Python floats are modelled as exact rationals <<n, d>> in     *)
(* lowest terms with d > 0, so "equal within floating-point tolerance"     *)
(* becomes exact equality.  Angles are integer degree labels restricted to *)
(* angles whose sine and cosine are rational: the multiples of 90 and the  *)
(* 3-4-5 angle atan(4/3) = 53.13 degrees, labelled 53 (and 53 + k*90).     *)
(*                                                                         *)
(* Optional values.  Python None is the empty tuple <<>>, a present value  *)
(* v is <<v>>.                                                             *)
(***************************************************************************)
EXTENDS Integers, Sequences, FiniteSets, TLC

VARIABLES
    sr,        \* the SpatialReference object: a record of its attributes
    sr2,       \* a second SpatialReference built from the corners of sr, or None
    epsgref,   \* the local EPSG store: the file epsgref.py and its imported module
    last,      \* the last call made on sr: its name, arguments, result, exception
    nops,      \* the number of mutating calls made so far
    mgrid      \* a ModelGrid object built on its own: a record of its attributes, or None

vars == <<sr, sr2, epsgref, last, nops, mgrid>>

----------------------------------------------------------------------------
(* Optional values *)

None == <<>>

Some(v) == <<v>>

Val(o) == o[1]

----------------------------------------------------------------------------
(* Exact rational arithmetic standing for float arithmetic *)

Abs(n) == IF n < 0 THEN -n ELSE n

RECURSIVE GCD(_, _)
GCD(a, b) == IF b = 0 THEN a ELSE GCD(b, a % b)

Rat(n, d) ==
    LET g == GCD(Abs(n), Abs(d))
        s == IF d < 0 THEN -1 ELSE 1
    IN  <<(s * n) \div g, (s * d) \div g>>

R(n) == <<n, 1>>

RNeg(a) == <<-a[1], a[2]>>

RAdd(a, b) ==
    LET g == GCD(a[2], b[2])
    IN  Rat(a[1] * (b[2] \div g) + b[1] * (a[2] \div g), (a[2] \div g) * b[2])

RSub(a, b) == RAdd(a, RNeg(b))

RMul(a, b) ==
    LET g1 == GCD(Abs(a[1]), b[2])
        g2 == GCD(Abs(b[1]), a[2])
    IN  Rat((a[1] \div g1) * (b[1] \div g2), (a[2] \div g2) * (b[2] \div g1))

RDiv(a, b) == RMul(a, Rat(b[2], b[1]))

----------------------------------------------------------------------------
(* np.cos and np.sin of an angle given by its degree label.  The conversion *)
(* to radians (theta * np.pi / 180.) is part of the table.                  *)

CosTable ==
    [a \in {0, 90, 180, 270, 53, 143, 233, 323, 37, 127, 217, 307} |->
        CASE a = 0   -> R(1)
          [] a = 90  -> R(0)
          [] a = 180 -> R(-1)
          [] a = 270 -> R(0)
          [] a = 53  -> Rat(3, 5)
          [] a = 143 -> Rat(-4, 5)
          [] a = 233 -> Rat(-3, 5)
          [] a = 323 -> Rat(4, 5)
          [] a = 37  -> Rat(4, 5)
          [] a = 127 -> Rat(-3, 5)
          [] a = 217 -> Rat(-4, 5)
          [] a = 307 -> Rat(3, 5)]

Cos(deg) == CosTable[deg % 360]

\* sin(a) = cos(a - 90 degrees)
Sin(deg) == CosTable[(deg + 270) % 360]

----------------------------------------------------------------------------
(* Arrays: a 1-D array is a sequence of numbers, a 2-D array a sequence of  *)
(* rows.                                                                    *)

RECURSIVE SumSeq(_)
SumSeq(a) == IF a = <<>> THEN R(0) ELSE RAdd(a[1], SumSeq(Tail(a)))

\* np.add.accumulate
Accumulate(a) == [k \in 1..Len(a) |-> SumSeq(SubSeq(a, 1, k))]

----------------------------------------------------------------------------
(* StructuredModelGrid *)

\* StructuredModelGrid.__init__
StructuredModelGrid(delc, delr, botm) ==
    [delc |-> delc, delr |-> delr, botm |-> botm,
     nlay |-> Len(botm), nrow |-> Len(delr), ncol |-> Len(delc)]

\* model-local edge coordinates along x: 0 and the running sums of delr
GridXEdge(mg) == <<R(0)>> \o Accumulate(mg.delr)

\* model-local edge coordinates along y, north to south: the extent of delc
\* minus its running sums
GridYEdge(mg) ==
    LET Ly  == SumSeq(mg.delc)
        acc == Accumulate(mg.delc)
    IN  <<Ly>> \o [k \in 1..Len(mg.delc) |-> RSub(Ly, acc[k])]

Half(a, b) == RDiv(RAdd(a, b), R(2))

\* modelgrid.xedges, modelgrid.yedges: 2-D, one row per y edge
GridXEdges(mg) ==
    LET xe == GridXEdge(mg)
    IN  [i \in 1..(Len(mg.delc) + 1) |-> xe]

GridYEdges(mg) ==
    LET ye == GridYEdge(mg)
    IN  [i \in 1..(Len(mg.delc) + 1) |-> [j \in 1..(Len(mg.delr) + 1) |-> ye[i]]]

\* modelgrid.xcenters, modelgrid.ycenters: 2-D, one row per grid row
GridXCenters(mg) ==
    LET xe == GridXEdge(mg)
    IN  [i \in 1..Len(mg.delc) |-> [j \in 1..Len(mg.delr) |-> Half(xe[j], xe[j + 1])]]

GridYCenters(mg) ==
    LET ye == GridYEdge(mg)
    IN  [i \in 1..Len(mg.delc) |-> [j \in 1..Len(mg.delr) |-> Half(ye[i], ye[i + 1])]]

\* modelgrid.get_grid_lines(): the segments along every x edge and every y edge
GridLines(mg) ==
    LET xe == GridXEdge(mg)
        ye == GridYEdge(mg)
    IN  [k \in 1..Len(xe) |-> <<<<xe[k], ye[1]>>, <<xe[k], ye[Len(ye)]>>>>]
        \o [k \in 1..Len(ye) |-> <<<<xe[1], ye[k]>>, <<xe[Len(xe)], ye[k]>>>>]

----------------------------------------------------------------------------
(* Strings.  A PROJ string is the sequence of its whitespace-separated      *)
(* tokens; substring tests are tests on the tokens.                         *)

\* str.lower() on the unit names the model uses
Lower(str) ==
    CASE str = "Feet"   -> "feet"
      [] str = "FEET"   -> "feet"
      [] str = "Meters" -> "meters"
      [] OTHER          -> str

\* "epsg" in token.lower(): the tokens that mention an EPSG code
EpsgOfToken ==
    [tok \in {"+init=epsg:26715", "epsg:26715", "EPSG:4326"} |->
        CASE tok = "+init=epsg:26715" -> 26715
          [] tok = "epsg:26715"       -> 26715
          [] tok = "EPSG:4326"        -> 4326]

MentionsEpsg(str) == \E k \in 1..Len(str) : str[k] \in DOMAIN EpsgOfToken

\* "init" in str.lower()
MentionsInit(str) == \E k \in 1..Len(str) : str[k] = "+init=epsg:26715"

----------------------------------------------------------------------------
(* SpatialReference: properties.  s is the record of the object's           *)
(* attributes.                                                              *)

supported_units == {"feet", "meters"}

\* SpatialReference.lenuni_text
lenuni_text ==
    [v \in 0..3 |->
        CASE v = 0 -> "undefined"
          [] v = 1 -> "feet"
          [] v = 2 -> "meters"
          [] v = 3 -> "centimeters"]

\* the side effect of reading the proj4_str property: a string that mentions
\* an EPSG code stores that code in _epsg
ReadProj4Str(s) ==
    IF s._proj4_str # None /\ MentionsEpsg(Val(s._proj4_str))
    THEN LET str == Val(s._proj4_str)
             k   == CHOOSE i \in 1..Len(str) :
                        /\ str[i] \in DOMAIN EpsgOfToken
                        /\ \A h \in 1..(i - 1) : str[h] \notin DOMAIN EpsgOfToken
         IN  [s EXCEPT !._epsg = Some(EpsgOfToken[str[k]])]
    ELSE s

\* '+init=epsg:{}'.format(epsg)
InitEpsgToken(code) ==
    CASE code = 26715 -> "+init=epsg:26715"
      [] code = 4326  -> "+init=epsg:4326"

\* "+init=" + token
PrefixInit(tok) ==
    CASE tok = "epsg:26715" -> "+init=epsg:26715"
      [] tok = "EPSG:4326"  -> "+init=EPSG:4326"
      [] OTHER              -> tok

\* the value of the proj4_str property
proj4_str(s) ==
    IF s._proj4_str # None
    THEN IF MentionsEpsg(Val(s._proj4_str)) /\ ~MentionsInit(Val(s._proj4_str))
         THEN Some(<<PrefixInit(Val(s._proj4_str)[1])>> \o Tail(Val(s._proj4_str)))
         ELSE s._proj4_str
    ELSE IF s._epsg # None
         THEN Some(<<InitEpsgToken(Val(s._epsg))>>)
         ELSE None

\* _parse_units_from_proj4: None when there is no string (the exception is
\* swallowed) and when the string goes through pyproj, whose srs repeats the
\* string it was given
parse_units_from_proj4(s) ==
    IF s._proj4_str = None THEN None
    ELSE IF MentionsEpsg(Val(s._proj4_str)) THEN None
    ELSE IF \E k \in 1..Len(Val(s._proj4_str)) : Val(s._proj4_str)[k] = "+units=m"
         THEN Some("meters")
    ELSE IF \E k \in 1..Len(Val(s._proj4_str)) :
                Val(s._proj4_str)[k] \in {"+units=ft", "+units=us-ft", "+to_meters:0.3048"}
         THEN Some("feet")
    ELSE None

\* the units property, before its assertion
units_value(s) ==
    LET u == IF s._units # None THEN Some(Lower(Val(s._units)))
             ELSE parse_units_from_proj4(s)
    IN  IF u = None THEN "meters" ELSE Val(u)

model_length_units(s) == lenuni_text[s._lenuni]

\* the length_multiplier property
length_multiplier(s) ==
    IF s._length_multiplier # None THEN Val(s._length_multiplier)
    ELSE CASE model_length_units(s) = "feet" ->
                IF units_value(s) = "meters" THEN Rat(381, 1250) ELSE R(1)
           [] model_length_units(s) = "meters" ->
                IF units_value(s) = "feet" THEN Rat(1250, 381) ELSE R(1)
           [] model_length_units(s) = "centimeters" ->
                IF units_value(s) = "meters" THEN Rat(1, 100) ELSE Rat(25, 762)
           [] OTHER -> R(1)

\* the theta property (the radians are carried by the degree label)
theta(s) == -s.rotation

xll(s) ==
    IF s.origin_loc = "ll" THEN s._xll
    ELSE RSub(s._xul, RMul(RMul(Sin(theta(s)), s._yedge[1]), length_multiplier(s)))

yll(s) ==
    IF s.origin_loc = "ll" THEN s._yll
    ELSE RSub(s._yul, RMul(RMul(Cos(theta(s)), s._yedge[1]), length_multiplier(s)))

xul(s) ==
    IF s.origin_loc = "ul" THEN s._xul
    ELSE RAdd(s._xll, RMul(RMul(Sin(theta(s)), s._yedge[1]), length_multiplier(s)))

\* yul with the derived branch not scaled by length_multiplier
yul_unscaled(s) ==
    IF s.origin_loc = "ul" THEN s._yul
    ELSE RAdd(s._yll, RMul(Cos(theta(s)), s._yedge[1]))

yul(s) ==
    IF s.origin_loc = "ul" THEN s._yul
    ELSE RAdd(s._yll, RMul(RMul(Cos(theta(s)), s._yedge[1]), length_multiplier(s)))

\* rotate turning clockwise
rotate_clockwise(x, y, deg, xorigin, yorigin) ==
    <<RAdd(xorigin, RAdd(RMul(Cos(deg), RSub(x, xorigin)),
                         RMul(Sin(deg), RSub(y, yorigin)))),
      RAdd(yorigin, RSub(RMul(Cos(deg), RSub(y, yorigin)),
                         RMul(Sin(deg), RSub(x, xorigin))))>>

\* SpatialReference.rotate: a point as <<x, y>>
rotate(x, y, deg, xorigin, yorigin) ==
    <<RAdd(xorigin, RSub(RMul(Cos(deg), RSub(x, xorigin)),
                         RMul(Sin(deg), RSub(y, yorigin)))),
      RAdd(yorigin, RAdd(RMul(Sin(deg), RSub(x, xorigin)),
                         RMul(Cos(deg), RSub(y, yorigin))))>>

\* transform whose inverse divides by the multiplier before it subtracts the
\* lower-left corner
transform_steps_divide_first(lm, xo, yo, rot, x, y, inverse) ==
    IF ~inverse
    THEN rotate(RAdd(RMul(x, lm), xo), RAdd(RMul(y, lm), yo), rot, xo, yo)
    ELSE LET p == rotate(x, y, -rot, xo, yo)
         IN  <<RSub(RDiv(p[1], lm), xo), RSub(RDiv(p[2], lm), yo)>>

\* the body of SpatialReference.transform on one point, given the values
\* read from the length_multiplier, xll, yll and rotation attributes
transform_steps(lm, xo, yo, rot, x, y, inverse) ==
    IF ~inverse
    THEN rotate(RAdd(RMul(x, lm), xo), RAdd(RMul(y, lm), yo), rot, xo, yo)
    ELSE LET p == rotate(x, y, -rot, xo, yo)
         IN  <<RDiv(RSub(p[1], xo), lm), RDiv(RSub(p[2], yo), lm)>>

\* transform placing the local origin at the upper-left corner
transform_from_upper_left(s, x, y, inverse) ==
    transform_steps(length_multiplier(s), xul(s), yul(s), s.rotation, x, y, inverse)

\* SpatialReference.transform on one point
transform(s, x, y, inverse) ==
    transform_steps(length_multiplier(s), xll(s), yll(s), s.rotation, x, y, inverse)

\* transform on a pair of 2-D arrays: <<x array, y array>>
transform2D(s, xa, ya) ==
    LET lm  == length_multiplier(s)
        xo  == xll(s)
        yo  == yll(s)
        pts == [i \in 1..Len(xa) |-> [j \in 1..Len(xa[i]) |->
                   transform_steps(lm, xo, yo, s.rotation, xa[i][j], ya[i][j], FALSE)]]
    IN  <<[i \in 1..Len(xa) |-> [j \in 1..Len(xa[i]) |-> pts[i][j][1]]],
          [i \in 1..Len(xa) |-> [j \in 1..Len(xa[i]) |-> pts[i][j][2]]]>>

\* the attributes a read of the length_multiplier property leaves behind:
\* it reads units, which reads proj4_str when no units are stored
ReadLengthMultiplier(s) ==
    IF s._length_multiplier = None /\ s._lenuni \in 1..3 /\ s._units = None
    THEN ReadProj4Str(s)
    ELSE s

----------------------------------------------------------------------------
(* SpatialReference: the cached derived arrays *)

CacheNames == {"_xedges", "_yedges", "_xcenters", "_ycenters", "_vertices", "_gridlines"}

\* _reset leaving the grid lines in place
reset_caches_keeps_gridlines(s) ==
    [s EXCEPT !._xedges = None, !._yedges = None, !._ycenters = None,
              !._xcenters = None, !._vertices = None]

\* SpatialReference._reset
reset_caches(s) ==
    [s EXCEPT !._xedges = None, !._yedges = None, !._ycenters = None,
              !._xcenters = None, !._vertices = None, !._gridlines = None]

Populated(s) == {c \in CacheNames : s[c] # None}

\* SpatialReference._set_xycenters
set_xycenters(s) ==
    LET c == transform2D(s, GridXCenters(s.modelgrid), GridYCenters(s.modelgrid))
    IN  [ReadLengthMultiplier(s) EXCEPT !._xcenters = Some(c[1]), !._ycenters = Some(c[2])]

\* SpatialReference._set_xyedges
set_xyedges(s) ==
    LET e == transform2D(s, GridXEdges(s.modelgrid), GridYEdges(s.modelgrid))
    IN  [ReadLengthMultiplier(s) EXCEPT !._xedges = Some(e[1]), !._yedges = Some(e[2])]

\* the xedges, yedges properties: the object after the read
read_xedges(s) == IF s._xedges = None THEN set_xyedges(s) ELSE s

read_yedges(s) == IF s._yedges = None THEN set_xyedges(s) ELSE s

read_xcenters(s) == IF s._xcenters = None THEN set_xycenters(s) ELSE s

read_ycenters(s) == IF s._ycenters = None THEN set_xycenters(s) ELSE s

\* the cells _set_vertices enumerates, np.meshgrid(range(ncol), range(nrow))
\* ravelled, as 0-based <<i, j>>
VertexCells(s) ==
    [k \in 1..(s.modelgrid.nrow * s.modelgrid.ncol) |->
        <<(k - 1) \div s.modelgrid.ncol, (k - 1) % s.modelgrid.ncol>>]

\* numpy raises IndexError when i + 1 or j + 1 is outside the edge grids
VertexIndexError(s, xgrid) ==
    \E k \in 1..Len(VertexCells(s)) :
        \/ VertexCells(s)[k][1] + 2 > Len(xgrid)
        \/ VertexCells(s)[k][2] + 2 > Len(xgrid[1])

\* SpatialReference.get_vertices for one 0-based cell <<i, j>>
get_vertices(xgrid, ygrid, i, j) ==
    << <<xgrid[i + 1][j + 1], ygrid[i + 1][j + 1]>>,
       <<xgrid[i + 2][j + 1], ygrid[i + 2][j + 1]>>,
       <<xgrid[i + 2][j + 2], ygrid[i + 2][j + 2]>>,
       <<xgrid[i + 1][j + 2], ygrid[i + 1][j + 2]>>,
       <<xgrid[i + 1][j + 1], ygrid[i + 1][j + 1]>> >>

\* _set_vertices on an object whose edge grids are cached: _vertices stays
\* None when the indexing raises
set_vertices(s) ==
    IF VertexIndexError(s, Val(s._xedges)) THEN s
    ELSE [s EXCEPT !._vertices =
             Some([k \in 1..Len(VertexCells(s)) |->
                   get_vertices(Val(s._xedges), Val(s._yedges),
                                VertexCells(s)[k][1], VertexCells(s)[k][2])])]

\* the vertices property: the object after the read; get_vertices reads
\* (and caches) xedges, then yedges, first
read_vertices(s) ==
    IF s._vertices # None THEN s
    ELSE CHOOSE r \in {set_vertices(s2) : s2 \in {read_yedges(s1) : s1 \in {read_xedges(s)}}} : TRUE

\* SpatialReference.get_grid_lines
get_grid_lines(s) ==
    LET lines == GridLines(s.modelgrid)
    IN  [k \in 1..Len(lines) |->
            <<transform(s, lines[k][1][1], lines[k][1][2], FALSE),
              transform(s, lines[k][2][1], lines[k][2][2], FALSE)>>]

\* the gridlines property: the object after the read
read_gridlines(s) ==
    IF s._gridlines # None THEN s
    ELSE [ReadLengthMultiplier(s) EXCEPT !._gridlines = Some(get_grid_lines(s))]

----------------------------------------------------------------------------
(* EPSG resolver.  The store st is [file, mod, header]: file is the         *)
(* content of epsgref.py (None when the file is absent, else the sequence   *)
(* of its <<code, text>> lines), header is whether the file starts with     *)
(* the line "prj = {}" that make writes, mod is the dictionary of the       *)
(* epsgref module once imported in this process (None before).              *)

\* what spatialreference.org holds for a code and a text format
RemoteText(epsg, text) ==
    IF text = "proj4" THEN <<"+proj=utm", "+units=m">>
    ELSE IF epsg = 26715 THEN "PROJCS[NAD27 / UTM zone 15N]"
    ELSE "GEOGCS[WGS 84]"

\* prj.get(epsg) on a dictionary built from the lines: the last line wins
DictGet(lines, epsg) ==
    IF \E k \in 1..Len(lines) : lines[k][1] = epsg
    THEN LET k == CHOOSE i \in 1..Len(lines) :
                      /\ lines[i][1] = epsg
                      /\ \A h \in (i + 1)..Len(lines) : lines[h][1] # epsg
         IN  Some(lines[k][2])
    ELSE None

\* get_spatialreference: reachable is whether the lookup service answers;
\* a miss prints a message and returns None
get_spatialreference(epsg, text, reachable) ==
    IF reachable THEN Some(RemoteText(epsg, text))
    ELSE IF text = "epsg" THEN Some(<<InitEpsgToken(epsg)>>)
    ELSE None

\* whether "from epsgref import prj" can load the file: it exists and
\* defines prj before the first prj[...] line
Importable(st) == st.file # None /\ st.header

\* the items of the dictionary the lines build: every code once, in
\* the order of first insertion, with the text of its last line
RECURSIVE DictItemsFrom(_, _)
DictItemsFrom(lines, i) ==
    IF i > Len(lines) THEN <<>>
    ELSE (IF \A h \in 1..(i - 1) : lines[h][1] # lines[i][1]
          THEN <<<<lines[i][1], Val(DictGet(lines, lines[i][1]))>>>>
          ELSE <<>>) \o DictItemsFrom(lines, i + 1)

DictItems(lines) == DictItemsFrom(lines, 1)

\* getproj4
getproj4(epsg, reachable) == get_spatialreference(epsg, "proj4", reachable)

\* epsgRef.make
epsgRef_make(st) ==
    IF st.file = None THEN [st EXCEPT !.file = Some(<<>>), !.header = TRUE] ELSE st

\* epsgRef.add
epsgRef_add(st, epsg, prj) ==
    [st EXCEPT !.file = Some((IF st.file = None THEN <<>> ELSE Val(st.file))
                             \o <<<<epsg, prj>>>>)]

\* epsgRef.reset: the file is removed and made again; the module already
\* imported stays in sys.modules
epsgRef_reset(st) == [st EXCEPT !.file = Some(<<>>), !.header = TRUE]

\* epsgRef.remove: [st, raised].  The import raises when the file is absent
\* or does not define prj; else the file is reset and rewritten from the
\* items of the imported dictionary, from which the code was deleted
epsgRef_remove(st, epsg) ==
    IF st.mod = None /\ ~Importable(st)
    THEN [st |-> st, raised |-> Some(IF st.file = None THEN "ImportError" ELSE "NameError")]
    ELSE LET prj == IF st.mod # None THEN Val(st.mod) ELSE Val(st.file)
             Keep(item) == item[1] # epsg
             items == SelectSeq(DictItems(prj), Keep)
         IN  [st |-> [epsgRef_reset(st) EXCEPT !.file = Some(items), !.mod = Some(items)],
              raised |-> None]

\* getprj: [wktstr, st, remote], remote being the number of remote lookups
getprj(st, epsg, reachable) ==
    LET imported == st.mod # None \/ Importable(st)
        st1 == IF st.mod # None THEN st
               ELSE IF Importable(st) THEN [st EXCEPT !.mod = st.file]
               ELSE epsgRef_make(st)
        hit == IF imported THEN DictGet(Val(st1.mod), epsg) ELSE None
        wktstr == IF hit = None
                  THEN get_spatialreference(epsg, "esriwkt", reachable)
                  ELSE hit
        st2 == IF wktstr # None THEN epsgRef_add(st1, epsg, Val(wktstr)) ELSE st1
    IN  [wktstr |-> wktstr, st |-> st2, remote |-> IF hit = None THEN 1 ELSE 0]

\* the projection files on disk: path -> text; other paths do not exist
PrjFiles == [p \in {"a.prj"} |-> "PROJCS[NAD83 / UTM zone 16N]"]

\* crs.__init__: [crs, st, raised, remote]; opening a missing file raises
crs_init(st, prj, epsg, reachable) ==
    IF prj # None
    THEN IF Val(prj) \in DOMAIN PrjFiles
         THEN [crs |-> [wktstr |-> Some(PrjFiles[Val(prj)])], st |-> st,
               raised |-> None, remote |-> 0]
         ELSE [crs |-> [wktstr |-> None], st |-> st,
               raised |-> Some("IOError"), remote |-> 0]
    ELSE IF epsg # None
    THEN LET g == getprj(st, Val(epsg), reachable)
         IN  [crs |-> [wktstr |-> g.wktstr], st |-> g.st,
              raised |-> None, remote |-> g.remote]
    ELSE [crs |-> [wktstr |-> None], st |-> st, raised |-> None, remote |-> 0]

----------------------------------------------------------------------------
(* SpatialReference: mutation.  Every operation returns                     *)
(* [s, st, raised, remote]: the object and the store after the call, the    *)
(* exception raised (None when it returns) and the number of remote         *)
(* lookups it made.  reach is [proj4, wkt]: whether the lookup service      *)
(* answers the PROJ lookup and the WKT lookup of this call.                 *)

Outcome(s, st, raised, remote) ==
    [s |-> s, st |-> st, raised |-> raised, remote |-> remote]

ResetKeys ==
    {"xul", "yul", "xll", "yll", "length_multiplier", "rotation", "lenuni",
     "units", "proj4_str", "epsg", "prj"}

\* __setattr__ whose epsg branch keeps the PROJ text held before when the
\* lookup returns None
setattr_epsg_keeps_proj4(s, st, key, value, reach) ==
    CASE key = "xul" ->
            Outcome(reset_caches([s EXCEPT !._xul = value, !.origin_loc = "ul"]),
                    st, None, 0)
      [] key = "yul" ->
            Outcome(reset_caches([s EXCEPT !._yul = value, !.origin_loc = "ul"]),
                    st, None, 0)
      [] key = "xll" ->
            Outcome(reset_caches([s EXCEPT !._xll = value, !.origin_loc = "ll"]),
                    st, None, 0)
      [] key = "yll" ->
            Outcome(reset_caches([s EXCEPT !._yll = value, !.origin_loc = "ll"]),
                    st, None, 0)
      [] key = "length_multiplier" ->
            Outcome(reset_caches([s EXCEPT !._length_multiplier = Some(value)]),
                    st, None, 0)
      [] key = "rotation" ->
            Outcome(reset_caches([s EXCEPT !.rotation = value]), st, None, 0)
      [] key = "lenuni" ->
            Outcome(reset_caches([s EXCEPT !._lenuni = value]), st, None, 0)
      [] key = "units" ->
            IF Lower(value) \in supported_units
            THEN Outcome(reset_caches([s EXCEPT !._units = Some(Lower(value))]),
                         st, None, 0)
            ELSE Outcome(s, st, Some("AssertionError"), 0)
      [] key = "proj4_str" ->
            LET s1 == [s EXCEPT !._proj4_str = value]
                u  == parse_units_from_proj4(s1)
                s2 == IF u # None THEN [s1 EXCEPT !._units = u] ELSE s1
            IN  Outcome(reset_caches([s2 EXCEPT !._epsg = None]), st, None, 0)
      [] key = "epsg" ->
            LET c == crs_init(st, None, Some(value), reach.wkt)
            IN  Outcome(reset_caches([s EXCEPT !._epsg = Some(value),
                                               !._units = None,
                                               !._proj4_str = IF getproj4(value, reach.proj4) = None
                                                              THEN s._proj4_str
                                                              ELSE getproj4(value, reach.proj4),
                                               !.crs = c.crs]),
                        c.st, None, 1 + c.remote)
      [] key = "prj" ->
            LET c == crs_init(st, value, s._epsg, reach.wkt)
            IN  IF c.raised # None
                THEN Outcome([s EXCEPT !.prj = value], st, c.raised, 0)
                ELSE Outcome(reset_caches([s EXCEPT !.prj = value, !.crs = c.crs]),
                             c.st, None, c.remote)

\* SpatialReference.__setattr__ for the keys that reset the caches
setattr(s, st, key, value, reach) ==
    CASE key = "xul" ->
            Outcome(reset_caches([s EXCEPT !._xul = value, !.origin_loc = "ul"]),
                    st, None, 0)
      [] key = "yul" ->
            Outcome(reset_caches([s EXCEPT !._yul = value, !.origin_loc = "ul"]),
                    st, None, 0)
      [] key = "xll" ->
            Outcome(reset_caches([s EXCEPT !._xll = value, !.origin_loc = "ll"]),
                    st, None, 0)
      [] key = "yll" ->
            Outcome(reset_caches([s EXCEPT !._yll = value, !.origin_loc = "ll"]),
                    st, None, 0)
      [] key = "length_multiplier" ->
            Outcome(reset_caches([s EXCEPT !._length_multiplier = Some(value)]),
                    st, None, 0)
      [] key = "rotation" ->
            Outcome(reset_caches([s EXCEPT !.rotation = value]), st, None, 0)
      [] key = "lenuni" ->
            Outcome(reset_caches([s EXCEPT !._lenuni = value]), st, None, 0)
      [] key = "units" ->
            IF Lower(value) \in supported_units
            THEN Outcome(reset_caches([s EXCEPT !._units = Some(Lower(value))]),
                         st, None, 0)
            ELSE Outcome(s, st, Some("AssertionError"), 0)
      [] key = "proj4_str" ->
            LET s1 == [s EXCEPT !._proj4_str = value]
                u  == parse_units_from_proj4(s1)
                s2 == IF u # None THEN [s1 EXCEPT !._units = u] ELSE s1
            IN  Outcome(reset_caches([s2 EXCEPT !._epsg = None]), st, None, 0)
      [] key = "epsg" ->
            LET c == crs_init(st, None, Some(value), reach.wkt)
            IN  Outcome(reset_caches([s EXCEPT !._epsg = Some(value),
                                               !._units = None,
                                               !._proj4_str = getproj4(value, reach.proj4),
                                               !.crs = c.crs]),
                        c.st, None, 1 + c.remote)
      [] key = "prj" ->
            LET c == crs_init(st, value, s._epsg, reach.wkt)
            IN  IF c.raised # None
                THEN Outcome([s EXCEPT !.prj = value], st, c.raised, 0)
                ELSE Outcome(reset_caches([s EXCEPT !.prj = value, !.crs = c.crs]),
                             c.st, None, c.remote)

\* SpatialReference.reset(**kwargs): the keys are assigned in order; an
\* exception ends the call with the earlier keys assigned
RECURSIVE reset(_, _, _, _)
reset(s, st, kwargs, reach) ==
    IF kwargs = <<>> THEN Outcome(s, st, None, 0)
    ELSE LET o == setattr(s, st, kwargs[1][1], kwargs[1][2], reach)
         IN  IF o.raised # None THEN o
             ELSE LET r == reset(o.s, o.st, Tail(kwargs), reach)
                  IN  [r EXCEPT !.remote = o.remote + r.remote]

\* set_spatialreference without the test of the y pair
set_spatialreference_unchecked_y(s, st, delc, axul, ayul, axll, ayll, rotation) ==
    IF axul # None /\ axll # None
    THEN Outcome(s, st, Some("ValueError: Both xul and xll entered"), 0)
    ELSE LET nothing  == axul = None /\ ayul = None /\ axll = None /\ ayll = None
             length_y == SumSeq(delc)
             acc      == Accumulate(delc)
         IN  Outcome(
               [reset_caches(s) EXCEPT
                  !.origin_loc = IF nothing THEN "ul"
                                 ELSE IF axll # None THEN "ll" ELSE "ul",
                  !.rotation = rotation,
                  !._xll = IF axll # None THEN Val(axll) ELSE R(0),
                  !._yll = IF ayll # None THEN Val(ayll) ELSE R(0),
                  !._xul = IF nothing THEN R(0)
                           ELSE IF axul # None THEN Val(axul) ELSE R(0),
                  !._yul = IF nothing THEN SumSeq(delc)
                           ELSE IF ayul # None THEN Val(ayul) ELSE R(0),
                  !._yedge = <<length_y>> \o
                             [k \in 1..Len(delc) |-> RSub(length_y, acc[k])]],
               st, None, 0)

\* SpatialReference.set_spatialreference; the origin arguments are optional
set_spatialreference(s, st, delc, axul, ayul, axll, ayll, rotation) ==
    IF axul # None /\ axll # None
    THEN Outcome(s, st, Some("ValueError: Both xul and xll entered"), 0)
    ELSE IF ayul # None /\ ayll # None
    THEN Outcome(s, st, Some("ValueError: Both yul and yll entered"), 0)
    ELSE LET nothing  == axul = None /\ ayul = None /\ axll = None /\ ayll = None
             length_y == SumSeq(delc)
             acc      == Accumulate(delc)
         IN  Outcome(
               [reset_caches(s) EXCEPT
                  !.origin_loc = IF nothing THEN "ul"
                                 ELSE IF axll # None THEN "ll" ELSE "ul",
                  !.rotation = rotation,
                  !._xll = IF axll # None THEN Val(axll) ELSE R(0),
                  !._yll = IF ayll # None THEN Val(ayll) ELSE R(0),
                  !._xul = IF nothing THEN R(0)
                           ELSE IF axul # None THEN Val(axul) ELSE R(0),
                  !._yul = IF nothing THEN SumSeq(delc)
                           ELSE IF ayul # None THEN Val(ayul) ELSE R(0),
                  !._yedge = <<length_y>> \o
                             [k \in 1..Len(delc) |-> RSub(length_y, acc[k])]],
               st, None, 0)

\* SpatialReference.set_yedge
set_yedge(s, yedge) == [s EXCEPT !._yedge = yedge]

\* a read of the wkt property: [s, st, raised, remote, ret]; _wkt is filled
\* from the projection file, else from getprj, only while it is None
read_wkt(s, st, reachable) ==
    IF s._wkt # None
    THEN [s |-> s, st |-> st, raised |-> None, remote |-> 0, ret |-> s._wkt]
    ELSE IF s.prj # None
    THEN IF Val(s.prj) \in DOMAIN PrjFiles
         THEN [s |-> [s EXCEPT !._wkt = Some(PrjFiles[Val(s.prj)])], st |-> st,
               raised |-> None, remote |-> 0, ret |-> Some(PrjFiles[Val(s.prj)])]
         ELSE [s |-> s, st |-> st, raised |-> Some("IOError"), remote |-> 0, ret |-> None]
    ELSE IF s._epsg # None
    THEN \* CHOOSE binds the one result of getprj
         CHOOSE r \in {[s |-> [s EXCEPT !._wkt = g.wktstr], st |-> g.st, raised |-> None,
                        remote |-> g.remote, ret |-> g.wktstr] :
                           g \in {getprj(st, Val(s._epsg), reachable)}} : TRUE
    ELSE [s |-> s, st |-> st, raised |-> None, remote |-> 0, ret |-> None]

----------------------------------------------------------------------------
(* SpatialReference.__init__.  a is the record of the arguments: grid is    *)
(* None or a grid object, the origin coordinates, proj4_str, epsg, prj,     *)
(* units and length_multiplier are optional.                                *)

CtorArgs(grid, delr, delc, lenuni, axul, ayul, axll, ayll, rotation, proj4, epsg, prj, units, lm) ==
    [grid |-> grid, delr |-> delr, delc |-> delc, lenuni |-> lenuni,
     xul |-> axul, yul |-> ayul, xll |-> axll, yll |-> ayll,
     rotation |-> rotation, proj4_str |-> proj4, epsg |-> epsg, prj |-> prj,
     units |-> units, length_multiplier |-> lm]

SpatialReference_init(st, a, reach) ==
    LET mg == IF a.grid # None THEN Val(a.grid)
              ELSE StructuredModelGrid(a.delc, a.delr, <<0>>)
        p4 == IF a.epsg # None THEN getproj4(Val(a.epsg), reach.proj4)
              ELSE a.proj4_str
        \* self.prj = prj builds a crs; self.crs = crs(...) builds it again
        c1 == crs_init(st, a.prj, a.epsg, reach.wkt)
        c2 == crs_init(c1.st, a.prj, a.epsg, reach.wkt)
        s0 == [modelgrid |-> mg, _lenuni |-> a.lenuni, _proj4_str |-> p4,
               _epsg |-> a.epsg, prj |-> a.prj, _wkt |-> None, crs |-> c2.crs,
               _units |-> a.units, _length_multiplier |-> a.length_multiplier,
               origin_loc |-> "ul", rotation |-> 0,
               _xll |-> R(0), _yll |-> R(0), _xul |-> R(0), _yul |-> R(0),
               _yedge |-> <<R(0)>>,
               _xedges |-> None, _yedges |-> None, _xcenters |-> None,
               _ycenters |-> None, _vertices |-> None, _gridlines |-> None]
        o  == set_spatialreference(s0, c2.st, a.delc, a.xul, a.yul, a.xll, a.yll,
                                   a.rotation)
    IN  IF c1.raised # None THEN Outcome(s0, st, c1.raised, 0)
        ELSE [o EXCEPT !.remote = (IF a.epsg # None THEN 1 ELSE 0)
                                  + c1.remote + c2.remote]

NoStore == [file |-> None, mod |-> None, header |-> FALSE]

NoReach == [proj4 |-> FALSE, wkt |-> FALSE]

----------------------------------------------------------------------------
(* Inputs *)

MaxOps == 1

GridA == StructuredModelGrid(<<R(2)>>, <<R(1)>>, <<0>>)

Reaches == [proj4 : BOOLEAN, wkt : BOOLEAN]

AllReach == [proj4 |-> TRUE, wkt |-> TRUE]

\* the constructor calls the lifecycle specification starts from: a grid
\* built from delc and delr, or a grid object passed with the default delc
InitArgs ==
    { CtorArgs(g[1], <<R(1)>>, g[2], 2, None, None, o[1], o[2], o[3],
               None, None, None, None, o[4]) :
        g \in {<<None, <<R(2)>>>>, <<Some(GridA), <<>>>>},
        o \in {<<None, None, 0, None>>, <<Some(R(1)), Some(R(1)), 53, Some(R(2))>>} }

AttrValues(key) ==
    CASE key = "xul" -> {R(3)}
      [] key = "yul" -> {R(4)}
      [] key = "xll" -> {R(1)}
      [] key = "yll" -> {R(2)}
      [] key = "length_multiplier" -> {Rat(1, 2)}
      [] key = "rotation" -> {90}
      [] key = "lenuni" -> {1}
      [] key = "units" -> {"Feet", "miles"}
      [] key = "proj4_str" -> {Some(<<"+proj=utm", "+units=ft">>)}
      [] key = "epsg" -> {26715}
      [] key = "prj" -> {Some("a.prj"), Some("missing.prj")}

\* the keyword arguments of the reset(**kwargs) calls, in assignment order
ResetKwargs ==
    { << <<"xul", R(3)>>, <<"xll", R(1)>> >>,
      << <<"yll", R(2)>>, <<"yul", R(4)>> >>,
      << <<"rotation", 90>>, <<"units", "miles">>, <<"xll", R(1)>> >> }

\* the origin arguments of the set_spatialreference calls: xul, yul, xll, yll
OriginArgs ==
    { <<None, None, None, None>>,
      <<None, None, Some(R(1)), Some(R(2))>>,
      <<Some(R(3)), Some(R(4)), None, None>>,
      <<Some(R(3)), None, Some(R(1)), None>>,
      <<None, Some(R(4)), None, Some(R(2))>>,
      <<Some(R(3)), Some(R(4)), Some(R(1)), Some(R(2))>> }

----------------------------------------------------------------------------
(* The lifecycle of one SpatialReference: assignments, reset,               *)
(* set_spatialreference and set_yedge interleaved with reads of the cached  *)
(* arrays.  last records the last mutating call; a read of a cached array   *)
(* returns the cache attribute as the read leaves it.                       *)

\* the record of a call; cached tells whether all six cached arrays were
\* populated when the call was made
Call(op, arg, o, cached) ==
    [op |-> op, arg |-> arg, raised |-> o.raised, remote |-> o.remote,
     cached |-> cached]

Init ==
    \E a \in InitArgs :
        LET o == SpatialReference_init(NoStore, a, NoReach)
        IN  /\ o.raised = None
            /\ sr = o.s
            /\ epsgref = o.st
            /\ sr2 = None
            /\ mgrid = None
            /\ last = Call("__init__", a, o, FALSE)
            /\ nops = 0

Mutate(op, arg, o) ==
    /\ nops < MaxOps
    /\ nops' = nops + 1
    /\ sr' = o.s
    /\ epsgref' = o.st
    /\ last' = Call(op, arg, o, Populated(sr) = CacheNames)
    /\ UNCHANGED <<sr2, mgrid>>

SetAttr ==
    \E key \in ResetKeys : \E value \in AttrValues(key) :
        Mutate("setattr", <<key, value>>, setattr(sr, epsgref, key, value, AllReach))

Reset ==
    \E kwargs \in ResetKwargs :
        Mutate("reset", kwargs, reset(sr, epsgref, kwargs, NoReach))

SetSpatialReference ==
    \E og \in OriginArgs :
        Mutate("set_spatialreference", <<<<R(1), R(2)>>, og, 90>>,
               set_spatialreference(sr, epsgref, <<R(1), R(2)>>,
                                    og[1], og[2], og[3], og[4], 90))

SetYedge ==
    Mutate("set_yedge", <<R(3), R(1), R(0)>>,
           Outcome(set_yedge(sr, <<R(3), R(1), R(0)>>), epsgref, None, 0))

Read(s) ==
    /\ sr' = s
    /\ UNCHANGED <<mgrid, sr2, epsgref, last, nops>>

ReadXcenters == Read(read_xcenters(sr))

ReadYcenters == Read(read_ycenters(sr))

ReadXedges == Read(read_xedges(sr))

ReadYedges == Read(read_yedges(sr))

ReadVertices == Read(read_vertices(sr))

ReadGridlines == Read(read_gridlines(sr))

Next ==
    \/ SetAttr
    \/ Reset
    \/ SetSpatialReference
    \/ SetYedge
    \/ ReadXcenters
    \/ ReadYcenters
    \/ ReadXedges
    \/ ReadYedges
    \/ ReadVertices
    \/ ReadGridlines

Spec == Init /\ [][Next]_vars

----------------------------------------------------------------------------
(* Calls of transform on SpatialReference objects built with either corner, *)
(* several rotations and explicit or derived length multipliers.            *)

\* lenuni and length_multiplier arguments: explicit multipliers, and the
\* multipliers derived from feet or meters model units with reference
\* units of meters
Multipliers == {<<2, Some(R(2))>>, <<2, Some(Rat(1, 2))>>, <<2, None>>, <<1, None>>}

\* delr = delc = [1, 1], xll = 0, yll = 0, rotation = 0, model and
\* coordinate units both meters
GridTwoByTwoArgs ==
    CtorArgs(None, <<R(1), R(1)>>, <<R(1), R(1)>>, 2, None, None, Some(R(0)), Some(R(0)), 0, None, None, None, None, None)

TransformArgs ==
    { CtorArgs(None, <<R(1)>>, delc, m[1], o[1], o[2], o[3], o[4], rot,
               None, None, None, None, m[2]) :
        delc \in {<<R(2)>>, <<R(1), R(2)>>},
        m \in Multipliers,
        o \in {<<None, None, Some(R(0)), Some(R(0))>>,
               <<None, None, Some(R(1)), Some(R(2))>>,
               <<Some(R(3)), Some(R(4)), None, None>>},
        rot \in {0, 90, 53, 180, 307} }
    \cup {GridTwoByTwoArgs}

Points == {<<R(0), R(0)>>, <<R(1), R(2)>>, <<Rat(1, 2), Rat(-3, 2)>>, <<Rat(1, 2), Rat(1, 2)>>}

\* the record of a transform call: of is the point whose forward image was
\* passed to an inverse call, None for any other call
TransformCall(x, y, inverse, ret, of) ==
    [op |-> "transform", arg |-> <<x, y, inverse>>, raised |-> None, remote |-> 0,
     cached |-> FALSE, ret |-> ret, of |-> of]

InitTransform ==
    \E a \in TransformArgs :
        LET o == SpatialReference_init(NoStore, a, NoReach)
        IN  /\ sr = o.s
            /\ epsgref = o.st
            /\ sr2 = None
            /\ mgrid = None
            /\ last = Call("__init__", a, o, FALSE)
            /\ nops = 0

Transformed(x, y, inverse, of) ==
    /\ sr' = ReadLengthMultiplier(sr)
    /\ last' = TransformCall(x, y, inverse, transform(sr, x, y, inverse), of)
    /\ UNCHANGED <<mgrid, sr2, epsgref, nops>>

TransformForward == \E p \in Points : Transformed(p[1], p[2], FALSE, None)

TransformInverse == \E p \in Points : Transformed(p[1], p[2], TRUE, None)

\* transform(*transform(x, y), inverse=True)
TransformBack ==
    /\ last.op = "transform"
    /\ ~last.arg[3]
    /\ Transformed(last.ret[1], last.ret[2], TRUE, Some(<<last.arg[1], last.arg[2]>>))

NextTransform ==
    \/ TransformForward
    \/ TransformInverse
    \/ TransformBack

SpecTransform == InitTransform /\ [][NextTransform]_vars

----------------------------------------------------------------------------
(* Grids of every shape: a SpatialReference built on a grid made from delc, *)
(* delr and botm, either by the constructor or passed as grid=, and the     *)
(* reads of its edges and vertices.                                         *)

GridDelcs == {<<R(1)>>, <<R(1), R(2)>>}

GridDelrs == {<<R(1)>>, <<R(2), R(1)>>}

GridBotms == {<<-1>>, <<-1, -2>>}

\* the grid is passed as grid= (with the same delc and delr), or built by the
\* constructor from delc and delr with botm = [0]
GridArgs ==
    { CtorArgs(IF b = None THEN None ELSE Some(StructuredModelGrid(delc, delr, Val(b))),
               delr, delc, 2, None, None, o[1], o[2], rot, None, None, None, None, None) :
        delc \in GridDelcs, delr \in GridDelrs, rot \in {0, 90},
        o \in {<<None, None>>, <<Some(R(1)), Some(R(2))>>},
        b \in {None} \cup {Some(botm) : botm \in GridBotms} }

InitGrid ==
    \E a \in GridArgs : \E o \in {SpatialReference_init(NoStore, a, NoReach)} :
        /\ sr = o.s
        /\ epsgref = o.st
        /\ sr2 = None
        /\ mgrid = None
        /\ last = Call("__init__", a, o, FALSE)
        /\ nops = 0

\* a read of the vertices property; the indexing of get_vertices raises
\* IndexError and leaves _vertices at None
GridReadVertices ==
    \E s \in {read_vertices(sr)} :
        /\ sr' = s
        /\ last' = Call("vertices", <<>>,
                        Outcome(s, epsgref,
                                IF s._vertices = None THEN Some("IndexError") ELSE None, 0),
                        FALSE)
        /\ UNCHANGED <<mgrid, sr2, epsgref, nops>>

GridReadXedges == Read(read_xedges(sr))

GridReadXcenters == Read(read_xcenters(sr))

NextGrid ==
    \/ GridReadVertices
    \/ GridReadXedges
    \/ GridReadXcenters

SpecGrid == InitGrid /\ [][NextGrid]_vars

----------------------------------------------------------------------------
(* The EPSG resolver and the coordinate reference attributes: lookups by    *)
(* code with the lookup service answering or not, a later process starting  *)
(* (the imported epsgref module is forgotten, the file stays), assignments  *)
(* of epsg, proj4_str and prj, and reads of wkt.                            *)

MaxCalls == 2

Codes == {26715, 4326}

\* epsgref.py absent, present and empty, present with one code
EpsgStores ==
    { NoStore,
      [file |-> Some(<<>>), mod |-> None, header |-> TRUE],
      [file |-> Some(<< <<26715, "PROJCS[NAD27 / UTM zone 15N]">> >>), mod |-> None, header |-> TRUE] }

\* constructor calls: <<proj4_str, epsg, units>>
EpsgCtorArgs ==
    { CtorArgs(None, <<R(1)>>, <<R(2)>>, 2, None, None, None, None, 0, c[1], c[2], None, c[3], None) :
        c \in { <<None, None, None>>,
                <<None, None, Some("feet")>>,
                <<None, Some(26715), None>>,
                <<Some(<<"+proj=utm", "+units=ft">>), None, None>> } }

Proj4Values ==
    {Some(<<"+proj=utm", "+zone=15">>), Some(<<"+proj=utm", "+units=m">>), Some(<<"epsg:26715">>)}

\* the record of a call: ret is what it returned, pre the object and the
\* store before it, prev the call before it
EpsgCall(op, arg, o, ret, prev) ==
    [op |-> op, arg |-> arg, raised |-> o.raised, remote |-> o.remote, cached |-> FALSE,
     ret |-> ret, pre |-> [s |-> sr, st |-> epsgref], prev |-> prev]

LastSummary == [op |-> last.op, arg |-> last.arg, ret |-> last.ret, remote |-> last.remote]

InitEpsg ==
    \E a \in EpsgCtorArgs : \E st \in EpsgStores : \E reach \in {NoReach, AllReach} :
        \E o \in {SpatialReference_init(st, a, reach)} :
            /\ sr = o.s
            /\ epsgref = o.st
            /\ sr2 = None
            /\ mgrid = None
            /\ last = [op |-> "__init__", arg |-> <<a, reach>>, raised |-> o.raised,
                       remote |-> o.remote, cached |-> FALSE, ret |-> None,
                       pre |-> [s |-> None, st |-> st],
                       prev |-> [op |-> "none", arg |-> <<>>, ret |-> None, remote |-> 0]]
            /\ nops = 0

\* a call that ends with the object s and the store st
EpsgStep(op, arg, o, ret) ==
    /\ nops < MaxCalls
    /\ nops' = nops + 1
    /\ sr' = o.s
    /\ epsgref' = o.st
    /\ last' = EpsgCall(op, arg, o, ret, LastSummary)
    /\ UNCHANGED <<sr2, mgrid>>

GetPrj ==
    \E epsg \in Codes : \E reachable \in BOOLEAN :
        \E g \in {getprj(epsgref, epsg, reachable)} :
            EpsgStep("getprj", <<epsg, reachable>>, Outcome(sr, g.st, None, g.remote), g.wktstr)

GetProj4 ==
    \E epsg \in Codes : \E reachable \in BOOLEAN :
        EpsgStep("getproj4", <<epsg, reachable>>, Outcome(sr, epsgref, None, 1),
                 getproj4(epsg, reachable))

\* a later process: nothing is imported yet, epsgref.py is as it was left
NewProcess ==
    /\ epsgref.mod # None
    /\ epsgref' = [epsgref EXCEPT !.mod = None]
    /\ UNCHANGED <<mgrid, sr, sr2, last, nops>>

AssignEpsg ==
    \E epsg \in Codes : \E reach \in {NoReach, AllReach} :
        \E o \in {setattr(sr, epsgref, "epsg", epsg, reach)} :
            EpsgStep("setattr", <<"epsg", epsg, reach>>, o, None)

AssignProj4 ==
    \E value \in Proj4Values :
        \E o \in {setattr(sr, epsgref, "proj4_str", value, NoReach)} :
            EpsgStep("setattr", <<"proj4_str", value, NoReach>>, o, None)

AssignPrj ==
    \E value \in {Some("a.prj"), Some("missing.prj")} :
        \E o \in {setattr(sr, epsgref, "prj", value, NoReach)} :
            EpsgStep("setattr", <<"prj", value, NoReach>>, o, None)

ReadWkt ==
    \E reachable \in BOOLEAN :
        \E o \in {read_wkt(sr, epsgref, reachable)} :
            EpsgStep("wkt", <<reachable>>, o, o.ret)

\* reading the proj4_str property
ReadProj4 ==
    EpsgStep("proj4_str", <<>>, Outcome(ReadProj4Str(sr), epsgref, None, 0), proj4_str(sr))

NextEpsg ==
    \/ GetPrj
    \/ GetProj4
    \/ NewProcess
    \/ AssignEpsg
    \/ AssignProj4
    \/ AssignPrj
    \/ ReadWkt
    \/ ReadProj4

SpecEpsg == InitEpsg /\ [][NextEpsg]_vars

----------------------------------------------------------------------------
(* Construction and set_spatialreference with every combination of origin   *)
(* arguments, and the rebuilding of an object from its derived corner.      *)

OriginCtorArgsFor(delc) ==
    { CtorArgs(None, <<R(1)>>, delc, m[1], ox[1], oy[1], ox[2], oy[2], rot,
               None, None, None, None, m[2]) :
        m \in {<<2, None>>, <<2, Some(R(2))>>, <<1, None>>},
        ox \in {<<None, None>>, <<Some(R(0)), None>>, <<None, Some(R(1))>>},
        oy \in {<<None, None>>, <<Some(SumSeq(delc)), None>>, <<Some(R(4)), None>>,
                <<None, Some(R(2))>>},
        rot \in {0, 53, 90} }

OriginCtorArgs == OriginCtorArgsFor(<<R(2)>>) \cup OriginCtorArgsFor(<<R(1), R(2)>>)

\* xul, yul, xll, yll of the set_spatialreference calls: each given or not
OriginAll ==
    {None, Some(R(3))} \X {None, Some(R(4))} \X {None, Some(R(1))} \X {None, Some(R(2))}

InitOrigin ==
    \E a \in OriginCtorArgs :
        LET o == SpatialReference_init(NoStore, a, NoReach)
        IN  /\ sr = o.s
            /\ epsgref = o.st
            /\ sr2 = None
            /\ mgrid = None
            /\ last = Call("__init__", a, o, FALSE)
            /\ nops = 0

\* the origin arguments <<xul, yul, xll, yll>>, delc and rotation of the
\* last construction or set_spatialreference call
LastOrigin ==
    IF last.op = "__init__"
    THEN <<last.arg.xul, last.arg.yul, last.arg.xll, last.arg.yll>>
    ELSE last.arg[2]

LastDelc == IF last.op = "__init__" THEN last.arg.delc ELSE last.arg[1]

LastRotation == IF last.op = "__init__" THEN last.arg.rotation ELSE last.arg[3]

SetOrigin ==
    \E og \in OriginAll : \E rot \in {0, 90} :
        LET o == set_spatialreference(sr, epsgref, <<R(2)>>,
                                      og[1], og[2], og[3], og[4], rot)
        IN  /\ sr' = o.s
            /\ epsgref' = o.st
            /\ last' = Call("set_spatialreference", <<<<R(2)>>, og, rot>>, o, FALSE)
            /\ sr2' = None
            /\ UNCHANGED <<nops, mgrid>>

\* a second object built with the same delc, rotation and multiplier from the
\* corner the first one derives
Rebuild ==
    /\ last.raised = None
    /\ \/ LastOrigin[1] # None /\ LastOrigin[2] # None
       \/ LastOrigin[3] # None /\ LastOrigin[4] # None
    /\ LET ul == sr.origin_loc = "ul"
           a  == CtorArgs(None, sr.modelgrid.delr, LastDelc, sr._lenuni,
                          IF ul THEN None ELSE Some(xul(sr)),
                          IF ul THEN None ELSE Some(yul(sr)),
                          IF ul THEN Some(xll(sr)) ELSE None,
                          IF ul THEN Some(yll(sr)) ELSE None,
                          sr.rotation, sr._proj4_str, None, None, sr._units,
                          sr._length_multiplier)
       IN  sr2' = Some(SpatialReference_init(epsgref, a, NoReach).s)
    /\ sr' = ReadLengthMultiplier(sr)
    /\ UNCHANGED <<epsgref, last, nops, mgrid>>

NextOrigin ==
    \/ SetOrigin
    \/ Rebuild

SpecOrigin == InitOrigin /\ [][NextOrigin]_vars

----------------------------------------------------------------------------
(* ModelGrid: the grid variants, their cell counts and dimension lists,    *)
(* and the cache the grid marks stale when its spatial reference is        *)
(* replaced.  Every method returns [raised, ret]: the exception raised     *)
(* (None when it returns) and the value returned.                          *)

Return(v) == [raised |-> None, ret |-> Some(v)]

Raise(e) == [raised |-> Some(e), ret |-> None]

\* a function that falls off its end returns None
ReturnNone == [raised |-> None, ret |-> None]

\* MFGridException.__init__: the message is prefixed with the class name
MFGridException(error) == [type |-> "MFGridException", msg |-> <<"MFGridException: ">> \o error]

NotImplementedError == [type |-> "NotImplementedError", msg |-> <<"this feature is not yet implemented">>]

\* calling an Enum member
TypeError == [type |-> "TypeError", msg |-> <<"'GridType' object is not callable">>]

\* CachedData.__init__
CachedData(data) == [data |-> data, out_of_date |-> FALSE]

\* CachedData.update_data
update_data(c, data) == [c EXCEPT !.data = data, !.out_of_date = FALSE]

\* ModelGrid.__init__
ModelGrid_init(cls, grid_type, sr_, simulation_time, model_name) ==
    [cls |-> cls, grid_type |-> grid_type, _sr |-> sr_, sim_time |-> simulation_time,
     model_name |-> model_name, _cache_dict |-> <<>>]

\* StructuredModelGrid.__init__ with the base class's part
StructuredModelGrid_init(delc, delr, top, botm, idomain, sr_, simulation_time) ==
    ModelGrid_init("StructuredModelGrid", "structured", sr_, simulation_time, "")
    @@ StructuredModelGrid(delc, delr, botm)
    @@ [top |-> top, idomain |-> idomain]

\* VertexModelGrid.__init__
VertexModelGrid_init(top, botm, idomain, vertices, cell2d, nlay, ncpl, sr_, simulation_time) ==
    ModelGrid_init("VertexModelGrid",
                   IF nlay = None THEN "unlayered_vertex" ELSE "layered_vertex",
                   sr_, simulation_time, "")
    @@ [top |-> top, botm |-> botm, idomain |-> idomain, _vertices |-> vertices,
        cell2d |-> cell2d, nlay |-> nlay, ncpl |-> ncpl]

\* self.grid_type(): grid_type is the attribute __init__ set to a GridType
\* member, and a member is not callable
grid_type_call(g) == Raise(TypeError)

\* ModelGrid.sr (getter)
sr_get(g) == Return(g._sr)

require_cache_updates_skips_fresh(g) == g

\* ModelGrid._require_cache_updates
require_cache_updates(g) ==
    [g EXCEPT !._cache_dict = [n \in DOMAIN g._cache_dict |->
                                  [g._cache_dict[n] EXCEPT !.out_of_date = TRUE]]]

\* ModelGrid.sr (setter)
sr_set(g, sr_) == require_cache_updates([g EXCEPT !._sr = sr_])

RECURSIVE SumInts(_)
SumInts(s) == IF Len(s) = 0 THEN 0 ELSE s[1] + SumInts(Tail(s))

MaxInts(s) == CHOOSE m \in {s[k] : k \in 1..Len(s)} : \A k \in 1..Len(s) : s[k] <= m

\* StructuredModelGrid.num_cells_per_layer
Structured_num_cells_per_layer(g, active_only) ==
    IF active_only THEN Raise(NotImplementedError) ELSE Return(g.nrow * g.ncol)

\* StructuredModelGrid.num_cells
Structured_num_cells(g, active_only) ==
    IF active_only THEN Raise(NotImplementedError) ELSE Return(g.nrow * g.ncol * g.nlay)

\* VertexModelGrid.num_cells_per_layer
Vertex_num_cells_per_layer(g, active_only) ==
    LET t == grid_type_call(g)
    IN  IF t.raised # None THEN t
        ELSE IF Val(t.ret) = "layered_vertex" THEN Raise(NotImplementedError)
        ELSE IF Val(t.ret) = "unlayered_vertex"
        THEN Raise(MFGridException(<<"ERROR: Model \"", g.model_name,
                   "\" is unstructured and does not have a consistant number of cells per layer.">>))
        ELSE ReturnNone

\* VertexModelGrid.num_cells
Vertex_num_cells(g, active_only) ==
    IF active_only THEN Raise(NotImplementedError)
    ELSE LET t == grid_type_call(g)
         IN  IF t.raised # None THEN t
             ELSE IF Val(t.ret) = "layered_vertex" THEN Return(SumInts(Val(g.ncpl)))
             ELSE IF Val(t.ret) = "unlayered_vertex" THEN Raise(NotImplementedError)
             ELSE ReturnNone

num_cells_per_layer(g, active_only) ==
    IF g.cls = "StructuredModelGrid" THEN Structured_num_cells_per_layer(g, active_only)
    ELSE Vertex_num_cells_per_layer(g, active_only)

num_cells(g, active_only) ==
    IF g.cls = "StructuredModelGrid" THEN Structured_num_cells(g, active_only)
    ELSE Vertex_num_cells(g, active_only)

\* StructuredModelGrid.get_model_dim
Structured_get_model_dim(g) ==
    LET t == grid_type_call(g)
    IN  IF t.raised # None THEN t
        ELSE IF Val(t.ret) = "structured" THEN Return(<<g.nlay, g.nrow, g.ncol>>)
        ELSE IF Val(t.ret) = "layered_vertex"
        THEN LET n == num_cells_per_layer(g, FALSE)
             IN  IF n.raised # None THEN n ELSE Return(<<g.nlay, Val(n.ret)>>)
        ELSE IF Val(t.ret) = "unlayered_vertex"
        THEN LET n == num_cells(g, FALSE)
             IN  IF n.raised # None THEN n ELSE Return(<<Val(n.ret)>>)
        ELSE ReturnNone

\* VertexModelGrid.get_model_dim
Vertex_get_model_dim(g) ==
    LET t == grid_type_call(g)
    IN  IF t.raised # None THEN t
        ELSE IF Val(t.ret) = "layered_vertex" THEN Return(<<Val(g.nlay), MaxInts(Val(g.ncpl))>>)
        ELSE IF Val(t.ret) = "unlayered_vertex"
        THEN LET n == num_cells(g, FALSE)
             IN  IF n.raised # None THEN n ELSE Return(<<Val(n.ret)>>)
        ELSE ReturnNone

get_model_dim(g) ==
    IF g.cls = "StructuredModelGrid" THEN Structured_get_model_dim(g)
    ELSE Vertex_get_model_dim(g)

\* get_model_dim_names, the same in both classes
get_model_dim_names(g) ==
    LET t == grid_type_call(g)
    IN  IF t.raised # None THEN t
        ELSE IF Val(t.ret) = "structured" THEN Return(<<"layer", "row", "column">>)
        ELSE IF Val(t.ret) = "layered_vertex" THEN Return(<<"layer", "layer_cell_num">>)
        ELSE IF Val(t.ret) = "unlayered_vertex" THEN Return(<<"node">>)
        ELSE ReturnNone

----------------------------------------------------------------------------
(* Specification of a ModelGrid: a grid of one of the three variants is    *)
(* built, then its counts and dimension lists are read, its spatial        *)
(* reference is read and replaced, and its cache is filled and refreshed.  *)
(* _cache_dict is filled by the grid's own array readers, which take a     *)
(* name that has no entry yet and store CachedData(value) under it.        *)

\* ncpl of the layered vertex grids, uniform and not
LayeredNcpls == {<<3>>, <<3, 3>>, <<2, 3>>}

\* cell2d of the unlayered vertex grids: one entry per cell
UnlayeredCell2ds == {<<1, 2>>, <<1, 2, 3>>}

GridObjects ==
    {StructuredModelGrid_init(delc, delr, None, botm, None, None, None) :
        delc \in GridDelcs, delr \in GridDelrs, botm \in GridBotms}
    \cup {VertexModelGrid_init(None, None, None, None, [k \in 1..MaxInts(ncpl) |-> k],
                               Some(Len(ncpl)), Some(ncpl), None, None) :
             ncpl \in LayeredNcpls}
    \cup {VertexModelGrid_init(None, None, None, None, cell2d, None, None, None, None) :
             cell2d \in UnlayeredCell2ds}

\* the spatial references assigned to grid.sr
SrValues ==
    {None} \cup {Some(SpatialReference_init(NoStore, a, NoReach).s) :
                    a \in {GridTwoByTwoArgs}}

CacheKeys == {"xedge", "yedge"}

CacheValues == {"v1", "v2"}

GridCallRecord(op, arg, r) == [op |-> op, arg |-> arg, raised |-> r.raised, ret |-> r.ret]

InitModelGrid ==
    /\ mgrid \in GridObjects
    /\ sr = None
    /\ sr2 = None
    /\ epsgref = NoStore
    /\ nops = 0
    /\ last = GridCallRecord("__init__", <<>>, ReturnNone)

GridCall(op, arg, r) ==
    /\ last' = GridCallRecord(op, arg, r)
    /\ UNCHANGED <<mgrid, sr, sr2, epsgref, nops>>

GridUpdate(op, arg, g) ==
    /\ mgrid' = g
    /\ last' = GridCallRecord(op, arg, ReturnNone)
    /\ UNCHANGED <<sr, sr2, epsgref, nops>>

NumCells == \E ao \in BOOLEAN : GridCall("num_cells", <<ao>>, num_cells(mgrid, ao))

NumCellsPerLayer ==
    \E ao \in BOOLEAN : GridCall("num_cells_per_layer", <<ao>>, num_cells_per_layer(mgrid, ao))

GetModelDim == GridCall("get_model_dim", <<>>, get_model_dim(mgrid))

GetModelDimNames == GridCall("get_model_dim_names", <<>>, get_model_dim_names(mgrid))

SrGet == GridCall("sr", <<>>, sr_get(mgrid))

SrSet == \E v \in SrValues : GridUpdate("sr=", <<v>>, sr_set(mgrid, v))

CachePut ==
    \E n \in CacheKeys \ DOMAIN mgrid._cache_dict, d \in CacheValues :
        GridUpdate("CachedData", <<n, d>>,
                   [mgrid EXCEPT !._cache_dict = @ @@ (n :> CachedData(d))])

UpdateData ==
    \E n \in DOMAIN mgrid._cache_dict, d \in CacheValues :
        GridUpdate("update_data", <<n, d>>,
                   [mgrid EXCEPT !._cache_dict[n] = update_data(@, d)])

NextModelGrid ==
    \/ NumCells
    \/ NumCellsPerLayer
    \/ GetModelDim
    \/ GetModelDimNames
    \/ SrGet
    \/ SrSet
    \/ CachePut
    \/ UpdateData

SpecModelGrid == InitModelGrid /\ [][NextModelGrid]_vars

----------------------------------------------------------------------------
(* Specification of the local EPSG store: epsgRef's operations applied to  *)
(* epsgref.py in any order, within one process and across processes.       *)

MaxLines == 3

StoreTexts == {"PROJCS[NAD27 / UTM zone 15N]", "GEOGCS[WGS 84]"}

StoreCall(op, arg, raised) == [op |-> op, arg |-> arg, raised |-> raised, pre |-> epsgref]

InitStore ==
    /\ epsgref = NoStore
    /\ sr = None
    /\ sr2 = None
    /\ mgrid = None
    /\ nops = 0
    /\ last = [op |-> "epsgRef", arg |-> <<>>, raised |-> None, pre |-> NoStore]

StoreStep(op, arg, st, raised) ==
    /\ epsgref' = st
    /\ last' = StoreCall(op, arg, raised)
    /\ UNCHANGED <<sr, sr2, mgrid, nops>>

StoreMake == StoreStep("make", <<>>, epsgRef_make(epsgref), None)

StoreReset == StoreStep("reset", <<>>, epsgRef_reset(epsgref), None)

StoreAdd ==
    /\ Len(IF epsgref.file = None THEN <<>> ELSE Val(epsgref.file)) < MaxLines
    /\ \E epsg \in Codes, prj \in StoreTexts :
           StoreStep("add", <<epsg, prj>>, epsgRef_add(epsgref, epsg, prj), None)

StoreRemove ==
    \E epsg \in Codes :
        \E r \in {epsgRef_remove(epsgref, epsg)} :
            StoreStep("remove", <<epsg>>, r.st, r.raised)

\* the interpreter exits and a new one starts: nothing is imported yet
StoreNewProcess ==
    /\ epsgref.mod # None
    /\ StoreStep("exit", <<>>, [epsgref EXCEPT !.mod = None], None)

NextStore ==
    \/ StoreMake
    \/ StoreReset
    \/ StoreAdd
    \/ StoreRemove
    \/ StoreNewProcess

SpecStore == InitStore /\ [][NextStore]_vars

----------------------------------------------------------------------------
(* CRS parser: the proj4 parameters inferred from the names of a WKT.      *)
(* A name (PROJCS, DATUM, SPHEROID) is the set of its lower-cased words,   *)
(* which are joined by "_" in the text; "kw in name.lower()" holds when    *)
(* kw is a substring of one of the words, no keyword holding a "_".        *)

\* the pairs <<kw, word>> with kw a proper substring of word, among the
\* keywords the parser looks for and the words of the names
ProperSubstrings ==
    {<<"tm", "utm">>, <<"transvers", "transverse">>, <<"america", "american">>,
     <<"83", "1983">>, <<"84", "1984">>, <<"27", "1927">>}

\* kw in name.lower()
Contains(name, kw) == \E w \in name : kw = w \/ <<kw, w>> \in ProperSubstrings

\* crs.parse_wkt: the names read from the text
parse_wkt(wkt) ==
    [projcs |-> wkt.projcs, geogcs |-> wkt.geogcs, datum |-> wkt.datum,
     spheriod_name |-> wkt.spheroid]

\* crs.crs, the 'proj' entry
crs_proj(c) ==
    IF c.projcs # None
    THEN IF Contains(Val(c.projcs), "mercator")
         THEN IF Contains(Val(c.projcs), "transvers") \/ Contains(Val(c.projcs), "tm")
              THEN Some("tmerc")
              ELSE Some("merc")
         ELSE IF Contains(Val(c.projcs), "utm") /\ Contains(Val(c.projcs), "zone")
         THEN Some("utm")
         ELSE IF Contains(Val(c.projcs), "stateplane") THEN Some("lcc")
         \* 'lambert' and 'conformal' and 'conic' in ...: the two literals are
         \* true, only 'conic' is looked for
         ELSE IF TRUE /\ TRUE /\ Contains(Val(c.projcs), "conic") THEN Some("lcc")
         ELSE IF Contains(Val(c.projcs), "albers") THEN Some("aea")
         ELSE None
    ELSE IF c.geogcs # None THEN Some("longlat")
    ELSE None

\* crs.crs, the 'datum' entry; None stands for the variable left unbound.
\* 'NAD' is never found in a lower-cased name
crs_datum(c) ==
    IF Contains(Val(c.datum), "north") /\ Contains(Val(c.datum), "america")
    THEN IF Contains(Val(c.datum), "83") THEN Some("nad83")
         ELSE IF Contains(Val(c.datum), "27") THEN Some("nad27")
         ELSE Some("nad")
    ELSE IF Contains(Val(c.datum), "84") THEN Some("wgs84")
    ELSE None

\* crs.crs, the 'ellps' entry; None stands for the variable left unbound
crs_ellps(c) ==
    IF Contains(Val(c.spheriod_name), "1866") THEN Some("clrk66")
    ELSE IF Contains(Val(c.spheriod_name), "grs") THEN Some("grs80")
    ELSE IF Contains(Val(c.spheriod_name), "wgs") THEN Some("wgs84")
    ELSE None

\* crs.crs: [raised, ret]
crs_crs(c) ==
    IF c.datum = None THEN Raise("AttributeError")
    ELSE IF c.spheriod_name = None THEN Raise("TypeError")
    ELSE IF crs_datum(c) = None \/ crs_ellps(c) = None THEN Raise("UnboundLocalError")
    ELSE Return([proj |-> crs_proj(c), datum |-> Val(crs_datum(c)),
                 ellps |-> Val(crs_ellps(c))])

----------------------------------------------------------------------------
(* Specification of the CRS parser: a crs is built from a WKT text and its *)
(* crs property is read.                                                   *)

\* the words a PROJCS name is made of
ProjcsWords ==
    {"utm", "zone", "mercator", "transverse", "tm", "stateplane", "lambert",
     "conformal", "conic", "albers"}

Datums == {{"d", "north", "american", "1983"}, {"d", "wgs", "1984"}, {"d", "osgb", "1936"}}

Spheroids == {{"grs", "1980"}}

\* projected, geographic and local coordinate systems
WktTexts ==
    {[projcs |-> Some(name), geogcs |-> Some({"gcs"}), datum |-> Some(d), spheroid |-> Some(s)] :
        name \in SUBSET ProjcsWords, d \in Datums, s \in Spheroids}
    \cup {[projcs |-> None, geogcs |-> Some({"gcs"}), datum |-> Some(d), spheroid |-> Some(s)] :
             d \in Datums, s \in Spheroids}
    \cup {[projcs |-> None, geogcs |-> None, datum |-> None, spheroid |-> None]}

CrsCall(op, wkt, c, r) ==
    [op |-> op, arg |-> wkt, crs |-> c, raised |-> r.raised, ret |-> r.ret]

InitCrs ==
    /\ \E wkt \in WktTexts : last = CrsCall("__init__", wkt, parse_wkt(wkt), ReturnNone)
    /\ sr = None
    /\ sr2 = None
    /\ mgrid = None
    /\ epsgref = NoStore
    /\ nops = 0

ReadCrs ==
    /\ last' = CrsCall("crs", last.arg, last.crs, crs_crs(last.crs))
    /\ UNCHANGED <<sr, sr2, mgrid, epsgref, nops>>

NextCrs == ReadCrs

SpecCrs == InitCrs /\ [][NextCrs]_vars

----------------------------------------------------------------------------
(* Claims *)

IsMutation(op) == nops' = nops + 1 /\ last'.op = op

FreshCenters(s) == transform2D(s, GridXCenters(s.modelgrid), GridYCenters(s.modelgrid))

FreshEdges(s) == transform2D(s, GridXEdges(s.modelgrid), GridYEdges(s.modelgrid))

\* C2: at every point of a sequence of mutations and reads, a read of
\* xcenters, ycenters, xedges or yedges returns the transform of the grid's
\* local arrays under the current parameters: a populated cache, which is
\* what a read returns, is never one computed under earlier parameters.
C2_ReadsAreCurrent ==
    /\ sr._xcenters # None => Val(sr._xcenters) = FreshCenters(sr)[1]
    /\ sr._ycenters # None => Val(sr._ycenters) = FreshCenters(sr)[2]
    /\ sr._xedges # None => Val(sr._xedges) = FreshEdges(sr)[1]
    /\ sr._yedges # None => Val(sr._yedges) = FreshEdges(sr)[2]

\* C5: in every state the corner properties agree with the transform and
\* with the attached grid: transform(0, 0) is (xll, yll) and
\* transform(0, sum(modelgrid.delc)) is (xul, yul).
C5_CornersAgree ==
    /\ transform(sr, R(0), R(0), FALSE) = <<xll(sr), yll(sr)>>
    /\ transform(sr, R(0), SumSeq(sr.modelgrid.delc), FALSE) = <<xul(sr), yul(sr)>>

XConflict(og) == og[1] # None /\ og[3] # None

YConflict(og) == og[2] # None /\ og[4] # None

\* C7: set_spatialreference raises ValueError naming the x pair when xul and
\* xll are both given, and naming the y pair when yul and yll are both given
\* (the x pair is checked first), and the object is then exactly as it was
\* before the call: origin_loc, corners, rotation, _yedge and caches.
C7_ConflictRejected ==
    [][IsMutation("set_spatialreference") =>
        /\ XConflict(last'.arg[2]) =>
              /\ last'.raised = Some("ValueError: Both xul and xll entered")
              /\ sr' = sr
        /\ (YConflict(last'.arg[2]) /\ ~XConflict(last'.arg[2])) =>
              /\ last'.raised = Some("ValueError: Both yul and yll entered")
              /\ sr' = sr]_vars

\* set_spatialreference raised for the y pair on an object whose six caches
\* were populated, and they still are
C7_Witness ==
    /\ last.op = "set_spatialreference"
    /\ last.raised = Some("ValueError: Both yul and yll entered")
    /\ last.cached
    /\ Populated(sr) = CacheNames

HasKey(kwargs, key) == \E k \in 1..Len(kwargs) : kwargs[k][1] = key

\* C8: reset(**kwargs) given both a ul and an ll coordinate of the same axis
\* is rejected with an error.
C8_ResetRejectsConflict ==
    (/\ last.op = "reset"
     /\ \/ HasKey(last.arg, "xul") /\ HasKey(last.arg, "xll")
        \/ HasKey(last.arg, "yul") /\ HasKey(last.arg, "yll"))
    => last.raised # None

\* the forward image of (x, y) written out: the lower-left corner plus the
\* scaled point turned counter-clockwise by the rotation angle
ExpectedForward(s, x, y) ==
    LET lm == length_multiplier(s)
        c  == Cos(s.rotation)
        sn == Sin(s.rotation)
    IN  <<RAdd(xll(s), RMul(lm, RSub(RMul(c, x), RMul(sn, y)))),
          RAdd(yll(s), RMul(lm, RAdd(RMul(sn, x), RMul(c, y))))>>

\* C3: the forward transform scales by length_multiplier, adds (xll, yll)
\* and rotates counter-clockwise by rotation about (xll, yll), for either
\* declared corner; with rotation 0 and multiplier 1 it is the translation
\* by (xll, yll); with xll = yll = 0 and rotation 90 it maps (0, 0) to (0, 0).
C3_ForwardTransform ==
    (last.op = "transform" /\ ~last.arg[3]) =>
        /\ last.ret = ExpectedForward(sr, last.arg[1], last.arg[2])
        /\ (sr.rotation = 0 /\ length_multiplier(sr) = R(1)) =>
              last.ret = <<RAdd(last.arg[1], xll(sr)), RAdd(last.arg[2], yll(sr))>>
        /\ (/\ sr.rotation = 90
            /\ xll(sr) = R(0)
            /\ yll(sr) = R(0)
            /\ last.arg[1] = R(0)
            /\ last.arg[2] = R(0)) => last.ret = <<R(0), R(0)>>

\* a forward call on an object declared by its upper-left corner, turned by
\* the 3-4-5 angle, with the multiplier derived from feet to meters
C3_Witness ==
    /\ last.op = "transform"
    /\ ~last.arg[3]
    /\ last.arg[1] = R(1)
    /\ last.arg[2] = R(2)
    /\ sr.origin_loc = "ul"
    /\ sr.rotation = 53
    /\ length_multiplier(sr) = Rat(381, 1250)

\* the local point of a world point written out: the offset from the
\* lower-left corner turned clockwise by the rotation angle, divided by the
\* multiplier
ExpectedInverse(s, x, y) ==
    LET lm == length_multiplier(s)
        c  == Cos(s.rotation)
        sn == Sin(s.rotation)
        dx == RSub(x, xll(s))
        dy == RSub(y, yll(s))
    IN  <<RDiv(RAdd(RMul(c, dx), RMul(sn, dy)), lm),
          RDiv(RSub(RMul(c, dy), RMul(sn, dx)), lm)>>

\* C4: transform(transform(x, y), inverse=True) returns (x, y) for any
\* rotation, either declared corner and a positive multiplier; the inverse
\* rotates by -rotation about the lower-left corner, subtracts the corner
\* and divides by the multiplier.
C4_RoundTrip ==
    (last.op = "transform" /\ last.arg[3]) =>
        /\ last.of # None => last.ret = Val(last.of)
        /\ last.ret = ExpectedInverse(sr, last.arg[1], last.arg[2])

\* the inverse of a forward image was taken on an object declared by its
\* upper-left corner, rotated, with a multiplier other than 1
C4_Witness ==
    /\ last.op = "transform"
    /\ last.of = Some(<<R(1), R(2)>>)
    /\ sr.origin_loc = "ul"
    /\ sr.rotation = 307
    /\ length_multiplier(sr) = R(2)

\* C6: after a construction or a set_spatialreference that returns,
\* origin_loc records the corner that was supplied and every supplied
\* origin coordinate reads back through its property.
C6_SuppliedOriginReadsBack ==
    (last.op \in {"__init__", "set_spatialreference"} /\ last.raised = None) =>
        /\ LastOrigin[1] # None => xul(sr) = Val(LastOrigin[1])
        /\ LastOrigin[2] # None => yul(sr) = Val(LastOrigin[2])
        /\ LastOrigin[3] # None => xll(sr) = Val(LastOrigin[3])
        /\ LastOrigin[4] # None => yll(sr) = Val(LastOrigin[4])
        /\ (LastOrigin[1] = None /\ LastOrigin[2] = None
            /\ (LastOrigin[3] # None \/ LastOrigin[4] # None)) => sr.origin_loc = "ll"
        /\ (LastOrigin[3] = None /\ LastOrigin[4] = None
            /\ (LastOrigin[1] # None \/ LastOrigin[2] # None)) => sr.origin_loc = "ul"

\* C9: an object rebuilt from the corner another one derives (same delc,
\* rotation, multiplier) has the same lower-left and upper-left corners.
C9_OriginDuality ==
    sr2 # None =>
        /\ Val(sr2).origin_loc # sr.origin_loc
        /\ xll(Val(sr2)) = xll(sr)
        /\ yll(Val(sr2)) = yll(sr)
        /\ xul(Val(sr2)) = xul(sr)
        /\ yul(Val(sr2)) = yul(sr)

\* an object declared by (xll, yll), rotated by the 3-4-5 angle with a
\* multiplier of 2, was rebuilt from its derived (xul, yul)
C9_Witness ==
    /\ sr2 # None
    /\ sr.origin_loc = "ll"
    /\ Val(sr2).origin_loc = "ul"
    /\ sr.rotation = 53
    /\ length_multiplier(sr) = R(2)
    /\ xul(sr) # xll(sr)

\* C10: an object constructed with rotation 0 and no origin coordinates, or
\* with xul = 0 and yul = sum(delc), has its lower-left corner at (0, 0),
\* for every delc and every multiplier.
C10_DefaultLowerLeftAtZero ==
    (/\ last.op = "__init__"
     /\ last.arg.rotation = 0
     /\ last.arg.xll = None
     /\ last.arg.yll = None
     /\ \/ last.arg.xul = None /\ last.arg.yul = None
        \/ last.arg.xul = Some(R(0)) /\ last.arg.yul = Some(SumSeq(last.arg.delc)))
    => (xll(sr) = R(0) /\ yll(sr) = R(0))

\* the 2 x 2 grid of unit cells at the origin, unrotated and unscaled, on
\* which the local point (0.5, 0.5) was transformed forward
TwoByTwoHalfHalf ==
    /\ last.op = "transform"
    /\ ~last.arg[3]
    /\ last.arg[1] = Rat(1, 2)
    /\ last.arg[2] = Rat(1, 2)
    /\ sr.modelgrid.delr = <<R(1), R(1)>>
    /\ sr.modelgrid.delc = <<R(1), R(1)>>
    /\ xll(sr) = R(0)
    /\ yll(sr) = R(0)
    /\ sr.rotation = 0
    /\ length_multiplier(sr) = R(1)

\* C11 as stated: on that grid the forward transform of the local point
\* (0.5, 0.5) is (0.5, 1.5).
C11_HalfHalfToNorthRow == TwoByTwoHalfHalf => last.ret = <<Rat(1, 2), Rat(3, 2)>>

\* C11 as amended: on that grid the forward transform of the local point
\* (0.5, 0.5) is (0.5, 0.5), the translation by (xll, yll) = (0, 0).
C11_HalfHalfUnmoved == TwoByTwoHalfHalf => last.ret = <<Rat(1, 2), Rat(1, 2)>>

C11_Witness == TwoByTwoHalfHalf /\ yul(sr) = R(2)

\* the point of the edge grids at 0-based row i, column j
EdgePoint(s, i, j) == <<Val(s._xedges)[i + 1][j + 1], Val(s._yedges)[i + 1][j + 1]>>

\* C12: on a grid of R = len(delc) rows and C = len(delr) columns a read of
\* vertices yields R*C rings in row-major cell order, each the five edge
\* points (i,j), (i+1,j), (i+1,j+1), (i,j+1), (i,j), whether or not R = C.
C12_VertexRings ==
    last.op = "vertices" =>
        /\ last.raised = None
        /\ sr._vertices # None
        /\ Len(Val(sr._vertices)) = Len(sr.modelgrid.delc) * Len(sr.modelgrid.delr)
        /\ \A i \in 0..(Len(sr.modelgrid.delc) - 1) :
             \A j \in 0..(Len(sr.modelgrid.delr) - 1) :
                Val(sr._vertices)[i * Len(sr.modelgrid.delr) + j + 1] =
                    <<EdgePoint(sr, i, j), EdgePoint(sr, i + 1, j),
                      EdgePoint(sr, i + 1, j + 1), EdgePoint(sr, i, j + 1),
                      EdgePoint(sr, i, j)>>

\* C20: every StructuredModelGrid has nlay = len(botm), nrow = len(delc)
\* and ncol = len(delr), also when len(delc) # len(delr).
C20_GridDimensions ==
    /\ sr.modelgrid.nlay = Len(sr.modelgrid.botm)
    /\ sr.modelgrid.nrow = Len(sr.modelgrid.delc)
    /\ sr.modelgrid.ncol = Len(sr.modelgrid.delr)

\* the entries of epsgref.py (none when the file is absent)
Entries(st) == IF st.file = None THEN <<>> ELSE Val(st.file)

\* the text epsgref.py holds for a code, None when it holds none
InFile(st, epsg) == DictGet(Entries(st), epsg)

\* C13: a getprj call for a code that epsgref.py holds returns the text held
\* and makes no remote lookup, whether or not the lookup service answers.
C13_CachedCodeNoRemote ==
    (last.op = "getprj" /\ InFile(last.pre.st, last.arg[1]) # None) =>
        /\ last.remote = 0
        /\ last.ret = InFile(last.pre.st, last.arg[1])

\* C14: a getprj call that misses and gets the text remotely leaves it in
\* epsgref.py under the code, and the next getprj call for the same code, in
\* this process or a later one, returns that text with no remote lookup.
C14_MissIsPersisted ==
    last.op = "getprj" =>
        /\ (last.remote = 1 /\ last.ret # None) => InFile(epsgref, last.arg[1]) = last.ret
        /\ (/\ last.prev.op = "getprj"
            /\ last.prev.arg[1] = last.arg[1]
            /\ last.prev.remote = 1
            /\ last.prev.ret # None) => (last.remote = 0 /\ last.ret = last.prev.ret)

\* the code of the last call is neither in epsgref.py nor answered remotely
Unobtainable(epsg, reachable) == InFile(last.pre.st, epsg) = None /\ ~reachable

\* the object holds a code with no text: its transform works and its
\* CRS-derived fields read as unknown
UnknownCrs(epsg) ==
    /\ last.raised = None
    /\ sr._epsg = Some(epsg)
    /\ sr._proj4_str = None
    /\ transform(sr, R(1), R(2), FALSE) = ExpectedForward(sr, R(1), R(2))
    /\ read_wkt(sr, epsgref, FALSE).ret = None
    /\ units_value(sr) = "meters"

\* C15: for a code neither cached nor obtainable remotely, getprj and
\* getproj4 return None without raising and add no entry, and an object
\* constructed with, or assigned, that epsg (and without a projection file)
\* exists, transforms, and reads wkt None and units meters.
C15_UnobtainableIsUnknown ==
    /\ (last.op = "getprj" /\ Unobtainable(last.arg[1], last.arg[2])) =>
          (last.ret = None /\ last.raised = None /\ Entries(epsgref) = Entries(last.pre.st))
    /\ (last.op = "getproj4" /\ Unobtainable(last.arg[1], last.arg[2])) =>
          (last.ret = None /\ last.raised = None /\ Entries(epsgref) = Entries(last.pre.st))
    /\ (/\ last.op = "__init__"
        /\ last.arg[1].epsg # None
        /\ Unobtainable(Val(last.arg[1].epsg), last.arg[2].proj4)) =>
          UnknownCrs(Val(last.arg[1].epsg))
    /\ (/\ last.op = "setattr"
        /\ last.arg[1] = "epsg"
        /\ last.pre.s.prj = None
        /\ Unobtainable(last.arg[2], last.arg[3].proj4)) => UnknownCrs(last.arg[2])

\* C16: a getproj4 call that gets text remotely leaves it in the local
\* cache, and a getproj4 call after one that got the text for the same code
\* makes no remote lookup.
C16_Proj4LookupUsesCache ==
    last.op = "getproj4" =>
        /\ last.ret # None => Entries(epsgref) # Entries(last.pre.st)
        /\ (/\ last.prev.op = "getproj4"
            /\ last.prev.arg[1] = last.arg[1]
            /\ last.prev.ret # None) => last.remote = 0

\* the units a PROJ string names, meters when it names none
UnitsNamed(str) ==
    IF \E k \in 1..Len(str) : str[k] = "+units=m" THEN "meters"
    ELSE IF \E k \in 1..Len(str) : str[k] \in {"+units=ft", "+units=us-ft"} THEN "feet"
    ELSE "meters"

\* C17: after an assignment of proj4_str, epsg reads None and units is what
\* the assigned string names (meters when it names none), whatever units
\* were set or derived before.
C17_Proj4ClearsUnitsAndEpsg ==
    (last.op = "setattr" /\ last.arg[1] = "proj4_str") =>
        /\ sr._epsg = None
        /\ units_value(sr) = UnitsNamed(Val(last.arg[2]))

\* C18: after an assignment of epsg, epsg reads the assigned code, the stored
\* units are cleared and re-derived, and the stored PROJ text is what the
\* lookup for the new code returned, None when it missed.
C18_EpsgRederivesProj4 ==
    (last.op = "setattr" /\ last.arg[1] = "epsg") =>
        /\ last.raised = None
        /\ sr._epsg = Some(last.arg[2])
        /\ sr._units = None
        /\ sr._proj4_str = IF last.arg[3].proj4 THEN Some(RemoteText(last.arg[2], "proj4"))
                           ELSE None
        /\ units_value(sr) = IF last.arg[3].proj4 THEN UnitsNamed(RemoteText(last.arg[2], "proj4"))
                             ELSE "meters"

\* epsg was assigned, the lookup missing, on an object that held a PROJ
\* string naming feet
C18_Witness ==
    /\ last.op = "setattr"
    /\ last.arg[1] = "epsg"
    /\ ~last.arg[3].proj4
    /\ last.pre.s._proj4_str # None
    /\ units_value(last.pre.s) = "feet"

\* C19: an assignment of prj does not open or parse the file: it does not
\* raise for a missing file and the parsed CRS is as before the assignment.
C19_PrjAssignedLazily ==
    (last.op = "setattr" /\ last.arg[1] = "prj") =>
        /\ last.raised = None
        /\ sr.crs = last.pre.s.crs


IsStructured(g) == g.grid_type = "structured"

IsLayered(g) == g.grid_type = "layered_vertex"

IsUnlayered(g) == g.grid_type = "unlayered_vertex"

UniformNcpl(g) == \A k \in 1..Len(Val(g.ncpl)) : Val(g.ncpl)[k] = Val(g.ncpl)[1]

Returned(v) == last.raised = None /\ last.ret = Some(v)

RaisedType(t) == last.raised # None /\ Val(last.raised).type = t

\* C21: num_cells(active_only=False) returns nlay*nrow*ncol on a structured
\* grid, the sum of ncpl on a layered vertex grid and the number of cell2d
\* entries on an unlayered vertex grid.
C21_NumCells ==
    (last.op = "num_cells" /\ last.arg = <<FALSE>>) =>
        /\ IsStructured(mgrid) =>
               Returned(Len(mgrid.botm) * Len(mgrid.delc) * Len(mgrid.delr))
        /\ IsLayered(mgrid) => Returned(SumInts(Val(mgrid.ncpl)))
        /\ IsUnlayered(mgrid) => Returned(Len(mgrid.cell2d))

\* C22: on every grid variant num_cells(active_only=True) and
\* num_cells_per_layer(active_only=True) raise NotImplementedError and
\* return no count.
C22_ActiveOnlyUnsupported ==
    (last.op \in {"num_cells", "num_cells_per_layer"} /\ last.arg = <<TRUE>>) =>
        RaisedType("NotImplementedError") /\ last.ret = None

\* C23: num_cells_per_layer() returns nrow*ncol on a structured grid and the
\* common per-layer count on a layered vertex grid with uniform ncpl; on an
\* unlayered vertex grid it raises MFGridException with a message that holds
\* the model name.
C23_NumCellsPerLayer ==
    (last.op = "num_cells_per_layer" /\ last.arg = <<FALSE>>) =>
        /\ IsStructured(mgrid) => Returned(Len(mgrid.delc) * Len(mgrid.delr))
        /\ (IsLayered(mgrid) /\ UniformNcpl(mgrid)) => Returned(Val(mgrid.ncpl)[1])
        /\ IsUnlayered(mgrid) =>
               /\ RaisedType("MFGridException")
               /\ \E k \in 1..Len(Val(last.raised).msg) :
                      Val(last.raised).msg[k] = mgrid.model_name

\* the dimension sizes and names the variant is to report
ExpectedDim(g) ==
    IF IsStructured(g) THEN <<Len(g.botm), Len(g.delc), Len(g.delr)>>
    ELSE IF IsLayered(g) THEN <<Val(g.nlay), Val(g.ncpl)[1]>>
    ELSE <<Len(g.cell2d)>>

ExpectedDimNames(g) ==
    IF IsStructured(g) THEN <<"layer", "row", "column">>
    ELSE IF IsLayered(g) THEN <<"layer", "layer_cell_num">>
    ELSE <<"node">>

\* C24: get_model_dim() returns [nlay, nrow, ncol], [nlay, cells per layer]
\* or [number of cells], and get_model_dim_names() the names of the same
\* length, ['layer', 'row', 'column'], ['layer', 'layer_cell_num'] or
\* ['node'], for a structured, layered vertex (uniform ncpl) and unlayered
\* vertex grid.
C24_ModelDim ==
    /\ (last.op = "get_model_dim" /\ (IsLayered(mgrid) => UniformNcpl(mgrid))) =>
           /\ Returned(ExpectedDim(mgrid))
           /\ Len(ExpectedDim(mgrid)) = Len(ExpectedDimNames(mgrid))
    /\ last.op = "get_model_dim_names" => Returned(ExpectedDimNames(mgrid))

Cache(g) == g._cache_dict

\* C25: a new CachedData is not out of date; an assignment to grid.sr
\* leaves every entry of the cache out of date; an entry that is out of
\* date stays so until update_data is called on it, which stores the new
\* value and clears the flag; reading grid.sr changes no entry.
C25_CacheStaleness ==
    [][/\ \A n \in DOMAIN Cache(mgrid') \ DOMAIN Cache(mgrid) :
              ~Cache(mgrid')[n].out_of_date
       /\ last'.op = "sr=" =>
              \A n \in DOMAIN Cache(mgrid') : Cache(mgrid')[n].out_of_date
       /\ \A n \in DOMAIN Cache(mgrid) :
              (/\ Cache(mgrid)[n].out_of_date
               /\ ~(last'.op = "update_data" /\ last'.arg[1] = n)) =>
                  n \in DOMAIN Cache(mgrid') /\ Cache(mgrid')[n].out_of_date
       /\ last'.op = "update_data" =>
              Cache(mgrid')[last'.arg[1]] = [data |-> last'.arg[2], out_of_date |-> FALSE]
       /\ last'.op = "sr" => Cache(mgrid') = Cache(mgrid)]_vars

\* sr was replaced while two entries were cached and one of them has been
\* refreshed since
C25_Witness ==
    /\ last.op = "update_data"
    /\ ~Cache(mgrid)[last.arg[1]].out_of_date
    /\ \E n \in DOMAIN Cache(mgrid) : Cache(mgrid)[n].out_of_date

\* C26: after epsgRef.remove(e) the store holds no entry for e and every
\* other code maps to the text it mapped to before the call.
C26_RemoveOnlyThatCode ==
    last.op = "remove" =>
        /\ DictGet(Entries(epsgref), last.arg[1]) = None
        /\ \A c \in Codes \ {last.arg[1]} :
               DictGet(Entries(epsgref), c) = DictGet(Entries(last.pre), c)

\* the keywords found in the PROJCS name of the crs that was read
Has(kw) == last.crs.projcs # None /\ Contains(Val(last.crs.projcs), kw)

HasLambertConformalConic == Has("lambert") /\ Has("conformal") /\ Has("conic")

Family(p) == last.raised = None => Val(last.ret).proj = Some(p)

\* C27: the projection family read from a crs follows the rule of the
\* PROJCS name: 'utm' gives utm; 'mercator' gives tmerc with 'transverse' or
\* 'tm' and merc without; 'stateplane', or 'lambert', 'conformal' and 'conic'
\* together, gives lcc; 'albers' gives aea, also with 'conic' when 'lambert'
\* is absent; no PROJCS and a GEOGCS gives longlat.  Each rule is taken on
\* the names that trigger no other rule.
C27_ProjectionFamily ==
    last.op = "crs" =>
        /\ (/\ Has("utm")
            /\ ~Has("mercator") /\ ~Has("stateplane") /\ ~Has("albers")
            /\ ~HasLambertConformalConic) => Family("utm")
        /\ (/\ Has("mercator")
            /\ ~Has("utm") /\ ~Has("stateplane") /\ ~Has("albers")
            /\ ~HasLambertConformalConic) =>
               IF Has("transvers") \/ Has("tm") THEN Family("tmerc") ELSE Family("merc")
        /\ (/\ Has("stateplane") \/ HasLambertConformalConic
            /\ ~Has("utm") /\ ~Has("mercator") /\ ~Has("albers")) => Family("lcc")
        /\ (/\ Has("albers")
            /\ ~Has("utm") /\ ~Has("mercator") /\ ~Has("stateplane")
            /\ ~Has("lambert")) => Family("aea")
        /\ (last.crs.projcs = None /\ last.crs.geogcs # None) => Family("longlat")

\* C28: a getprj call that finds the code in the imported dictionary, and
\* so makes no remote lookup, leaves epsgref.py as it was.
C28_CacheHitAppendsNothing ==
    (last.op = "getprj" /\ last.remote = 0) => epsgref.file = last.pre.st.file

\* C29: reading proj4_str leaves _epsg, _units and _proj4_str as they were.
C29_Proj4ReadHasNoEffect ==
    last.op = "proj4_str" =>
        /\ sr._epsg = last.pre.s._epsg
        /\ sr._units = last.pre.s._units
        /\ sr._proj4_str = last.pre.s._proj4_str

\* the text a lookup of the code gives now: the text epsgref.py holds, else
\* the remote text when the service answers
CurrentText(epsg, reachable) ==
    IF InFile(epsgref, epsg) # None THEN InFile(epsgref, epsg)
    ELSE IF reachable THEN Some(RemoteText(epsg, "esriwkt"))
    ELSE None

\* C30: once wkt was read, an assignment of another epsg (on an object with
\* no projection file) or of another projection file makes the next read of
\* wkt return the text of the new code or file.
C30_WktFollowsSource ==
    (/\ last.op = "setattr"
     /\ last.raised = None
     /\ last.pre.s._wkt # None) =>
        /\ (/\ last.arg[1] = "epsg"
            /\ last.pre.s.prj = None
            /\ last.pre.s._epsg # Some(last.arg[2])) =>
               \A reachable \in BOOLEAN :
                   read_wkt(sr, epsgref, reachable).ret = CurrentText(last.arg[2], reachable)
        /\ (last.arg[1] = "prj" /\ last.pre.s.prj # last.arg[2]) =>
               read_wkt(sr, epsgref, FALSE).ret = Some(PrjFiles[Val(last.arg[2])])

====
